---- MODULE Spec2Model ----
(***************************************************************************)
(* Connection setup of the async redis client (aio/mod.rs):                *)
(* setup_connection and update_az_from_info, driven over a ConnectionLike  *)
(* handle whose replies are chosen by the environment.                     *)
(***************************************************************************)
EXTENDS Integers, Sequences, FiniteSets, TLC

VARIABLES connection_info, discover_az, yield, run, yield2, run2

vars == <<connection_info, discover_az, yield, run, yield2, run2>>

----------------------------------------------------------------------------
(* Bounds of the model *)

\* largest database index tried
MaxDb == 2
\* largest number of descriptors in a restoration set
MaxSubs == 2

----------------------------------------------------------------------------
(* Values: Option<T> is a set with at most one element *)

None == {}
Some(x) == {x}
Unwrap(o) == CHOOSE x \in o : TRUE

ProtocolVersion == {"RESP2", "RESP3"}

PubSubSubscriptionKind == {"Exact", "Pattern", "Sharded"}

Channels == {"a", "b"}

PushKind == {"Subscribe", "PSubscribe", "SSubscribe", "Message"}

Okay == [t |-> "Okay"]
Nil == [t |-> "Nil"]
BulkString(b) == [t |-> "BulkString", v |-> b]
SimpleString(s) == [t |-> "SimpleString", v |-> s]
Push(kind, data) == [t |-> "Push", kind |-> kind, data |-> data]
\* the text of an INFO reply, as its set of <<field, value>> lines
InfoText(lines) == [t |-> "Info", lines |-> lines]
\* Err(e) of RedisResult; detail is e.detail(), a message in words
ErrReply(detail) == [t |-> "Err", detail |-> detail]

AuthArityMsg == <<"wrong", "number", "of", "arguments", "for", "'auth'", "command">>

Details ==
    { None,
      Some(<<"ERR">> \o AuthArityMsg),
      Some(<<"wrong", "number", "of", "arguments", "for", "'hello'", "command">>),
      Some(<<"WRONGPASS", "invalid", "password">>) }

PushData ==
    { <<>>, <<BulkString("a")>>, <<BulkString("b")>>, <<SimpleString("a")>> }

InfoLines ==
    { {<<"role", "master">>},
      {<<"role", "master">>, <<"availability_zone", "us-east-1a">>} }

\* every reply the handle may give to a dispatch
Replies ==
    {Okay, Nil}
        \cup {ErrReply(d) : d \in Details}
        \cup {InfoText(l) : l \in InfoLines}
        \cup {Push(k, d) : k \in PushKind, d \in PushData}

IsErr(r) == r.t = "Err"

\* str::contains on messages in words
Contains(hay, needle) ==
    \E i \in 0..(Len(hay) - Len(needle)) :
        SubSeq(hay, i + 1, i + Len(needle)) = needle

----------------------------------------------------------------------------
(* Results of setup_connection *)

Running == [t |-> "Running"]
RetOk == [t |-> "Ok"]
RetErr(kind, msg) == [t |-> "Err", kind |-> kind, msg |-> msg]
\* the task unwinds: an index out of bounds
Panicked == [t |-> "Panic"]

get_resp3_hello_command_error(e) ==
    RetErr("HelloError", "HELLO command failed")

----------------------------------------------------------------------------
(* Commands *)

cmd(name) == <<name>>
arg(c, a) == Append(c, a)

resp3_hello(ci) ==
    IF ci.password # None
    THEN <<"HELLO", "3", "AUTH",
           IF ci.username # None THEN Unwrap(ci.username) ELSE "default",
           Unwrap(ci.password)>>
    ELSE <<"HELLO", "3">>

client_set_info_pipeline == <<"CLIENT", "SETINFO">>

KIND_TO_COMMAND ==
    [k \in PubSubSubscriptionKind |->
        CASE k = "Exact" -> "SUBSCRIBE"
          [] k = "Pattern" -> "PSUBSCRIBE"
          [] k = "Sharded" -> "SSUBSCRIBE"]

----------------------------------------------------------------------------
(* The restoration set and the orders its iteration can yield *)

Descriptors == [kind : PubSubSubscriptionKind, chan : Channels]

DescriptorsOf(subs) ==
    {d \in Descriptors : d.chan \in subs[d.kind]}

SubscriptionInfos ==
    {s \in [PubSubSubscriptionKind -> SUBSET Channels] :
        Cardinality(DescriptorsOf(s)) <= MaxSubs}

\* one kind's entries are yielded together: the outer loop is over kinds
Grouped(s) ==
    \A i, j \in 1..Len(s) :
        (i < j /\ s[i].kind = s[j].kind) =>
            \A m \in i..j : s[m].kind = s[i].kind

YieldOrders(osubs) ==
    IF osubs = None THEN {<<>>}
    ELSE LET ds == DescriptorsOf(Unwrap(osubs))
             n == Cardinality(ds)
         IN {s \in [1..n -> ds] :
                /\ \A d \in ds : \E i \in 1..n : s[i] = d
                /\ Grouped(s)}

----------------------------------------------------------------------------
(* The handle and one run of setup_connection on it *)

\* the implementations of set_az the handle's type C can have: that of the
\* trait, which keeps no zone, or one of its own, which keeps it
AzImpls == {"default", "kept"}

\* az_calls: the arguments of the calls of set_az, in order
NewRun ==
    [pc |-> "first", sent |-> <<>>, last |-> Nil, db |-> 0,
     az |-> None, az_calls |-> <<>>, ret |-> Running, k |-> 1]

\* no second handle
Idle == [NewRun EXCEPT !.pc = "idle"]

\* req_packed_command: the command is recorded, the reply is r
Dispatch(rn, c, r) ==
    [rn EXCEPT !.sent = Append(@, c), !.last = r]

Return(rn, res) == [rn EXCEPT !.pc = "done", !.ret = res]

Goto(rn, pc) == [rn EXCEPT !.pc = pc]

get_db(rn) == rn.db
get_az(rn) == rn.az
set_az(rn, impl, az) ==
    [rn EXCEPT !.az = IF impl = "default" THEN @ ELSE az,
               !.az_calls = Append(@, az)]

----------------------------------------------------------------------------
(* The steps of setup_connection: rn is the run, r the reply to the        *)
(* command the step dispatches                                             *)

\* StepAfter with the database selection and the client naming exchanged
StepAfterSwapped(pc) ==
    CASE pc = "first" -> "setname"
      [] pc = "setname" -> "select"
      [] pc = "select" -> "discover_az"
      [] pc = "discover_az" -> "setinfo"
      [] pc = "setinfo" -> "resubscribe"
      [] pc = "resubscribe" -> "subscribe"

\* the order of the steps in the body of setup_connection
StepAfter(pc) ==
    CASE pc = "first" -> "select"
      [] pc = "select" -> "setname"
      [] pc = "setname" -> "discover_az"
      [] pc = "discover_az" -> "setinfo"
      [] pc = "setinfo" -> "resubscribe"
      [] pc = "resubscribe" -> "subscribe"

AuthFailed == RetErr("AuthenticationFailed", "Password authentication failed")

\* DoHello going on after an error
DoHelloUnchecked(rn, r) ==
    Goto(Dispatch(rn, resp3_hello(connection_info), r), StepAfter("first"))

\* HELLO, under a protocol other than RESP2
DoHello(rn, r) ==
    LET d == Dispatch(rn, resp3_hello(connection_info), r)
    IN IF IsErr(r)
       THEN Return(d, get_resp3_hello_command_error(r))
       ELSE Goto(d, StepAfter("first"))

AuthCommand ==
    LET command == cmd("AUTH")
        withUser == IF connection_info.username # None
                    THEN arg(command, Unwrap(connection_info.username))
                    ELSE command
    IN arg(withUser, Unwrap(connection_info.password))

\* DoAuth retrying after any error that has a detail
DoAuthRetryAnyError(rn, r) ==
    LET d == Dispatch(rn, AuthCommand, r)
    IN CASE r = Okay -> Goto(d, StepAfter("first"))
         [] IsErr(r) ->
                IF r.detail = None
                THEN Return(d, AuthFailed)
                ELSE Goto(d, "auth_retry")
         [] OTHER -> Return(d, AuthFailed)

\* AUTH [username] password, under RESP2 with a password
DoAuth(rn, r) ==
    LET d == Dispatch(rn, AuthCommand, r)
    IN CASE r = Okay -> Goto(d, StepAfter("first"))
         [] IsErr(r) ->
                IF r.detail = None
                THEN Return(d, AuthFailed)
                ELSE IF ~Contains(Unwrap(r.detail), AuthArityMsg)
                THEN Return(d, AuthFailed)
                ELSE Goto(d, "auth_retry")
         [] OTHER -> Return(d, AuthFailed)

\* DoAuthRetry repeating the command of the first attempt
DoAuthRetryWithUsername(rn, r) ==
    LET d == Dispatch(rn, AuthCommand, r)
    IN IF r = Okay THEN Goto(d, StepAfter("first")) ELSE Return(d, AuthFailed)

\* AUTH password, after the arity error
DoAuthRetry(rn, r) ==
    LET d == Dispatch(rn, arg(cmd("AUTH"), Unwrap(connection_info.password)), r)
    IN IF r = Okay THEN Goto(d, StepAfter("first")) ELSE Return(d, AuthFailed)

\* the handle is bound to database d once the server acknowledged SELECT d
BindDb(rn, d) == [rn EXCEPT !.db = d]

\* DoSelect taking every reply that is not an error for the acknowledgment
DoSelectAnyValue(rn, r) ==
    LET d == Dispatch(rn, arg(cmd("SELECT"), ToString(connection_info.db)), r)
    IN IF ~IsErr(r)
       THEN Goto(IF r = Okay THEN BindDb(d, connection_info.db) ELSE d,
                 StepAfter("select"))
       ELSE Return(d, RetErr("ResponseError",
                             "Redis server refused to switch database"))

DoSelect(rn, r) ==
    LET d == Dispatch(rn, arg(cmd("SELECT"), ToString(connection_info.db)), r)
    IN IF r = Okay
       THEN Goto(BindDb(d, connection_info.db), StepAfter("select"))
       ELSE Return(d, RetErr("ResponseError",
                             "Redis server refused to switch database"))

\* DoSetName taking every reply that is not an error for the acknowledgment
DoSetNameAnyValue(rn, r) ==
    LET d == Dispatch(rn,
                 arg(arg(cmd("CLIENT"), "SETNAME"),
                     Unwrap(connection_info.client_name)), r)
    IN IF ~IsErr(r)
       THEN Goto(d, StepAfter("setname"))
       ELSE Return(d, RetErr("ResponseError",
                             "Redis server refused to set client name"))

DoSetName(rn, r) ==
    LET d == Dispatch(rn,
                 arg(arg(cmd("CLIENT"), "SETNAME"),
                     Unwrap(connection_info.client_name)), r)
    IN IF r = Okay
       THEN Goto(d, StepAfter("setname"))
       ELSE Return(d, RetErr("ResponseError",
                             "Redis server refused to set client name"))

\* FromRedisValue for InfoDict: the dictionary of a reply that has one
InfoDictFromValue(v) ==
    IF v.t = "Info" THEN Some(v.lines) ELSE None

\* InfoDict::get
InfoGet(dict, key) == {l[2] : l \in {m \in dict : m[1] = key}}

\* update_az_from_info passing the result of the lookup to set_az as it is
update_az_from_info_clearing(rn, impl, r) ==
    LET d == Dispatch(rn, cmd("INFO"), r)
    IN IF ~IsErr(r)
       THEN LET info_dict == InfoDictFromValue(r)
            IN IF info_dict = None
               THEN Return(d, RetErr("TypeError", "Response was of incompatible type"))
               ELSE LET node_az == InfoGet(Unwrap(info_dict), "availability_zone")
                    IN Goto(set_az(d, impl, node_az), StepAfter("discover_az"))
       ELSE Return(d, RetErr("ResponseError", "Failed to execute INFO command. "))

\* update_az_from_info failing on a dictionary without the field
update_az_from_info_required(rn, impl, r) ==
    LET d == Dispatch(rn, cmd("INFO"), r)
    IN IF ~IsErr(r)
       THEN LET info_dict == InfoDictFromValue(r)
            IN IF info_dict = None
               THEN Return(d, RetErr("TypeError", "Response was of incompatible type"))
               ELSE LET node_az == InfoGet(Unwrap(info_dict), "availability_zone")
                    IN IF node_az # None
                       THEN Goto(set_az(d, impl, node_az), StepAfter("discover_az"))
                       ELSE Return(d, RetErr("ResponseError",
                                             "Failed to execute INFO command. "))
       ELSE Return(d, RetErr("ResponseError", "Failed to execute INFO command. "))

update_az_from_info(rn, impl, r) ==
    LET d == Dispatch(rn, cmd("INFO"), r)
    IN IF ~IsErr(r)
       THEN LET info_dict == InfoDictFromValue(r)
            IN IF info_dict = None
               THEN Return(d, RetErr("TypeError", "Response was of incompatible type"))
               ELSE LET node_az == InfoGet(Unwrap(info_dict), "availability_zone")
                    IN IF node_az # None
                       THEN Goto(set_az(d, impl, node_az), StepAfter("discover_az"))
                       ELSE Goto(d, StepAfter("discover_az"))
       ELSE Return(d, RetErr("ResponseError", "Failed to execute INFO command. "))

\* DoSetInfo propagating the error of the batch
DoSetInfoChecked(rn, r) ==
    LET d == Dispatch(rn, client_set_info_pipeline, r)
    IN IF IsErr(r)
       THEN Return(d, RetErr("ResponseError", "CLIENT SETINFO failed"))
       ELSE Goto(d, StepAfter("setinfo"))

\* the result of the batch is ignored
DoSetInfo(rn, r) ==
    Goto(Dispatch(rn, client_set_info_pipeline, r), StepAfter("setinfo"))

\* DoResubscribe without the check of the protocol
DoResubscribeAnyProtocol(rn) ==
    IF connection_info.pubsub_subscriptions = None
    THEN Return(rn, RetOk)
    ELSE Goto(rn, StepAfter("resubscribe"))

\* the two early returns before the loop
DoResubscribe(rn) ==
    IF connection_info.protocol # "RESP3"
    THEN Return(rn, RetOk)
    ELSE IF connection_info.pubsub_subscriptions = None
    THEN Return(rn, RetOk)
    ELSE Goto(rn, StepAfter("resubscribe"))

ExpectedPush ==
    [k \in PubSubSubscriptionKind |->
        CASE k = "Exact" -> "Subscribe"
          [] k = "Pattern" -> "PSubscribe"
          [] k = "Sharded" -> "SSubscribe"]

\* RestoreFailed with one message for the three kinds
RestoreFailedCommon(kind) ==
    RetErr("ResponseError", "Failed to restore subscription channels")

RestoreFailed(kind) ==
    RetErr("ResponseError",
           CASE kind = "Exact" -> "Failed to restore Exact subscription channels"
             [] kind = "Pattern" -> "Failed to restore Pattern subscription channels"
             [] kind = "Sharded" -> "Failed to restore Sharded subscription channels")

NoNotification ==
    RetErr("ResponseError",
           "Failed to receive subscription notification while restoring subscription channels")

\* DoSubscribe checking the kind of the push and not its payload
DoSubscribeKindOnly(rn, order, r) ==
    LET subscription_kind == order[rn.k].kind
        channel_pattern == order[rn.k].chan
        d == Dispatch(rn, arg(cmd(KIND_TO_COMMAND[subscription_kind]), channel_pattern), r)
    IN IF r.t = "Push"
       THEN IF r.kind # ExpectedPush[subscription_kind]
            THEN Return(d, RestoreFailed(subscription_kind))
            ELSE [d EXCEPT !.k = @ + 1]
       ELSE Return(d, NoNotification)

\* DoSubscribe passing over the entry after a confirmed one
DoSubscribeSkipping(rn, order, r) ==
    LET subscription_kind == order[rn.k].kind
        channel_pattern == order[rn.k].chan
        d == Dispatch(rn, arg(cmd(KIND_TO_COMMAND[subscription_kind]), channel_pattern), r)
    IN IF r.t = "Push"
       THEN IF r.kind # ExpectedPush[subscription_kind]
            THEN Return(d, RestoreFailed(subscription_kind))
            ELSE IF Len(r.data) = 0
            THEN Return(d, Panicked)
            ELSE IF BulkString(channel_pattern) # r.data[1]
            THEN Return(d, RestoreFailed(subscription_kind))
            ELSE [d EXCEPT !.k = @ + 2]
       ELSE Return(d, NoNotification)

\* one iteration of the loops: order[rn.k] is the entry the iteration yields
DoSubscribe(rn, order, r) ==
    LET subscription_kind == order[rn.k].kind
        channel_pattern == order[rn.k].chan
        d == Dispatch(rn, arg(cmd(KIND_TO_COMMAND[subscription_kind]), channel_pattern), r)
    IN IF r.t = "Push"
       THEN IF r.kind # ExpectedPush[subscription_kind]
            THEN Return(d, RestoreFailed(subscription_kind))
            ELSE IF Len(r.data) = 0
            THEN Return(d, Panicked)
            ELSE IF BulkString(channel_pattern) # r.data[1]
            THEN Return(d, RestoreFailed(subscription_kind))
            ELSE [d EXCEPT !.k = @ + 1]
       ELSE Return(d, NoNotification)

----------------------------------------------------------------------------
(* The state machine of one run *)

ConnectionInfos ==
    [protocol : ProtocolVersion,
     username : {None, Some("user")},
     password : {None, Some("pass")},
     db : 0..MaxDb,
     client_name : {None, Some("name")},
     pubsub_subscriptions : {None} \cup {Some(s) : s \in SubscriptionInfos}]

Init ==
    /\ connection_info \in ConnectionInfos
    /\ discover_az \in BOOLEAN
    /\ yield = <<>>
    /\ run = NewRun
    /\ yield2 = <<>>
    /\ run2 = Idle

Frame == UNCHANGED <<connection_info, discover_az, yield, yield2, run2>>

Hello ==
    /\ run.pc = "first"
    /\ connection_info.protocol # "RESP2"
    /\ \E r \in Replies : run' = DoHello(run, r)
    /\ Frame

Auth ==
    /\ run.pc = "first"
    /\ connection_info.protocol = "RESP2"
    /\ connection_info.password # None
    /\ \E r \in Replies : run' = DoAuth(run, r)
    /\ Frame

NoAuth ==
    /\ run.pc = "first"
    /\ connection_info.protocol = "RESP2"
    /\ connection_info.password = None
    /\ run' = Goto(run, StepAfter("first"))
    /\ Frame

AuthRetry ==
    /\ run.pc = "auth_retry"
    /\ \E r \in Replies : run' = DoAuthRetry(run, r)
    /\ Frame

Select ==
    /\ run.pc = "select"
    /\ connection_info.db # 0
    /\ \E r \in Replies : run' = DoSelect(run, r)
    /\ Frame

NoSelect ==
    /\ run.pc = "select"
    /\ connection_info.db = 0
    /\ run' = Goto(run, StepAfter("select"))
    /\ Frame

SetName ==
    /\ run.pc = "setname"
    /\ connection_info.client_name # None
    /\ \E r \in Replies : run' = DoSetName(run, r)
    /\ Frame

NoSetName ==
    /\ run.pc = "setname"
    /\ connection_info.client_name = None
    /\ run' = Goto(run, StepAfter("setname"))
    /\ Frame

DiscoverAz ==
    /\ run.pc = "discover_az"
    /\ discover_az
    /\ \E r \in Replies, impl \in AzImpls :
          run' = update_az_from_info(run, impl, r)
    /\ Frame

NoDiscoverAz ==
    /\ run.pc = "discover_az"
    /\ ~discover_az
    /\ run' = Goto(run, StepAfter("discover_az"))
    /\ Frame

SetInfo ==
    /\ run.pc = "setinfo"
    /\ \E r \in Replies : run' = DoSetInfo(run, r)
    /\ Frame

\* the loop starts: the collection yields its entries in one of its orders
Resubscribe ==
    /\ run.pc = "resubscribe"
    /\ run' = DoResubscribe(run)
    /\ yield' \in IF run'.pc = "done"
                 THEN {yield}
                 ELSE YieldOrders(connection_info.pubsub_subscriptions)
    /\ UNCHANGED <<connection_info, discover_az, yield2, run2>>

Subscribe ==
    /\ run.pc = "subscribe"
    /\ run.k <= Len(yield)
    /\ \E r \in Replies : run' = DoSubscribe(run, yield, r)
    /\ Frame

\* both loops are exhausted
Ready ==
    /\ run.pc = "subscribe"
    /\ run.k > Len(yield)
    /\ run' = Return(run, RetOk)
    /\ Frame

Next ==
    \/ Hello \/ Auth \/ NoAuth \/ AuthRetry
    \/ Select \/ NoSelect
    \/ SetName \/ NoSetName
    \/ DiscoverAz \/ NoDiscoverAz
    \/ SetInfo
    \/ Resubscribe \/ Subscribe \/ Ready

Spec == Init /\ [][Next]_vars

\* every dispatched command gets a reply or an error: a run that has not
\* ended takes its next step
SpecFair == Spec /\ WF_vars(Next)

----------------------------------------------------------------------------
(* Two runs on two handles: equal connection parameters and discovery     *)
(* flag, each parameter object's collection with a yield order of its own, *)
(* and the same reply to the n-th dispatch of either run                   *)

\* the whole body of setup_connection, one step at a time
Advance(rn, order, r) ==
    CASE rn.pc = "first" ->
            IF connection_info.protocol # "RESP2" THEN DoHello(rn, r)
            ELSE IF connection_info.password # None THEN DoAuth(rn, r)
            ELSE Goto(rn, StepAfter("first"))
      [] rn.pc = "auth_retry" -> DoAuthRetry(rn, r)
      [] rn.pc = "select" ->
            IF connection_info.db # 0 THEN DoSelect(rn, r)
            ELSE Goto(rn, StepAfter("select"))
      [] rn.pc = "setname" ->
            IF connection_info.client_name # None THEN DoSetName(rn, r)
            ELSE Goto(rn, StepAfter("setname"))
      [] rn.pc = "discover_az" ->
            IF discover_az THEN update_az_from_info(rn, "kept", r)
            ELSE Goto(rn, StepAfter("discover_az"))
      [] rn.pc = "setinfo" -> DoSetInfo(rn, r)
      [] rn.pc = "resubscribe" -> DoResubscribe(rn)
      [] rn.pc = "subscribe" ->
            IF rn.k <= Len(order) THEN DoSubscribe(rn, order, r)
            ELSE Return(rn, RetOk)
      [] OTHER -> rn

InitPair ==
    /\ connection_info \in ConnectionInfos
    /\ discover_az \in BOOLEAN
    /\ yield \in YieldOrders(connection_info.pubsub_subscriptions)
    /\ yield2 \in YieldOrders(connection_info.pubsub_subscriptions)
    /\ run = NewRun
    /\ run2 = NewRun

\* whether the next step of the run awaits the reply to a command
Dispatches(rn, order) ==
    CASE rn.pc = "first" ->
            connection_info.protocol # "RESP2" \/ connection_info.password # None
      [] rn.pc = "auth_retry" -> TRUE
      [] rn.pc = "select" -> connection_info.db # 0
      [] rn.pc = "setname" -> connection_info.client_name # None
      [] rn.pc = "discover_az" -> discover_az
      [] rn.pc = "setinfo" -> TRUE
      [] rn.pc = "subscribe" -> rn.k <= Len(order)
      [] OTHER -> FALSE

Finished(rn) == rn.pc = "done"

\* both runs are at a dispatch (or one has returned): one reply for both
PairDispatch ==
    /\ Finished(run) \/ Dispatches(run, yield)
    /\ Finished(run2) \/ Dispatches(run2, yield2)
    /\ ~(Finished(run) /\ Finished(run2))
    /\ \E r \in Replies :
          /\ run' = Advance(run, yield, r)
          /\ run2' = Advance(run2, yield2, r)
    /\ UNCHANGED <<connection_info, discover_az, yield, yield2>>

\* the steps that dispatch nothing
PairLocal ==
    /\ \/ ~Finished(run) /\ ~Dispatches(run, yield)
       \/ ~Finished(run2) /\ ~Dispatches(run2, yield2)
    /\ run' = IF Dispatches(run, yield) THEN run ELSE Advance(run, yield, Nil)
    /\ run2' = IF Dispatches(run2, yield2) THEN run2 ELSE Advance(run2, yield2, Nil)
    /\ UNCHANGED <<connection_info, discover_az, yield, yield2>>

NextPair == PairDispatch \/ PairLocal

SpecPair == InitPair /\ [][NextPair]_vars

----------------------------------------------------------------------------
(* Vocabulary of the properties: what the handle recorded                  *)

SubscribeNames == {"SUBSCRIBE", "PSUBSCRIBE", "SSUBSCRIBE"}

IsSubscribe(c) == c[1] \in SubscribeNames

IsBatch(c) == c = <<"CLIENT", "SETINFO">>

IsSetName(c) == Len(c) >= 2 /\ c[1] = "CLIENT" /\ c[2] = "SETNAME"

\* the step a dispatched command belongs to
StepRank(c) ==
    CASE c[1] \in {"HELLO", "AUTH"} -> 1
      [] c[1] = "SELECT" -> 2
      [] IsSetName(c) -> 3
      [] c[1] = "INFO" -> 4
      [] IsBatch(c) -> 5
      [] IsSubscribe(c) -> 6

\* the acknowledgment kind of a subscribe command
AckKind(name) ==
    CASE name = "SUBSCRIBE" -> "Subscribe"
      [] name = "PSUBSCRIBE" -> "PSubscribe"
      [] name = "SSUBSCRIBE" -> "SSubscribe"

\* reply r confirms subscribe command c
Confirms(c, r) ==
    /\ r.t = "Push"
    /\ r.kind = AckKind(c[1])
    /\ Len(r.data) >= 1
    /\ r.data[1] = BulkString(c[2])

IsArityError(r) ==
    /\ IsErr(r)
    /\ r.detail # None
    /\ Contains(Unwrap(r.detail), AuthArityMsg)

LastSent(rn) == rn.sent[Len(rn.sent)]

NumAuth(rn) == Cardinality({i \in 1..Len(rn.sent) : rn.sent[i][1] = "AUTH"})

\* a run that has returned takes no further step
NoStepAfterReturn == run.pc = "done" => run' = run

\* the reply to the last command makes its (mandatory) step fail
StepFailed(rn) ==
    LET c == LastSent(rn)
        r == rn.last
    IN CASE c[1] = "HELLO" -> IsErr(r)
         [] c[1] = "AUTH" -> r # Okay /\ ~(Len(rn.sent) = 1 /\ IsArityError(r))
         [] c[1] = "SELECT" -> r # Okay
         [] IsSetName(c) -> r # Okay
         [] c[1] = "INFO" -> IsErr(r)
         [] IsSubscribe(c) -> ~Confirms(c, r)
         [] OTHER -> FALSE

----------------------------------------------------------------------------
(* C1: once a mandatory step fails (negotiation, authentication, database  *)
(* selection, client naming, locality discovery, a subscription            *)
(* confirmation) the run has returned, with an error, so that nothing more *)
(* is dispatched; a run that has returned returned success or an error,    *)
(* and success only when no mandatory step failed.                         *)
C1_FailureAbortsWithOneError ==
    /\ (run.sent # <<>> /\ StepFailed(run)) =>
            (run.pc = "done" /\ run.ret.t = "Err")
    /\ run.pc = "done" => run.ret.t \in {"Ok", "Err"}
    /\ run.pc # "done" => run.ret = Running

----------------------------------------------------------------------------
(* C2: the commands dispatched appear in the step order HELLO or AUTH,     *)
(* SELECT, CLIENT SETNAME, INFO, the client-metadata batch, the subscribe  *)
(* commands: no command of an earlier step follows one of a later step,    *)
(* and only the first step and the subscriptions dispatch more than once.  *)
C2_StepOrder ==
    \A i, j \in 1..Len(run.sent) :
        i < j =>
            /\ StepRank(run.sent[i]) <= StepRank(run.sent[j])
            /\ StepRank(run.sent[i]) = StepRank(run.sent[j]) =>
                    StepRank(run.sent[i]) \in {1, 6}

C2_Witness ==
    /\ run.ret = RetOk
    /\ {StepRank(run.sent[i]) : i \in 1..Len(run.sent)} = 1..6

----------------------------------------------------------------------------
C3_Configured ==
    /\ connection_info.protocol = "RESP2"
    /\ connection_info.username # None
    /\ connection_info.password # None

C3_State ==
    C3_Configured =>
        /\ NumAuth(run) <= 2
        /\ (Len(run.sent) = 1 /\ IsArityError(run.last)) =>
                (run.pc = "auth_retry" /\ run.ret = Running)
        /\ run.pc = "auth_retry" => (Len(run.sent) = 1 /\ IsArityError(run.last))
        /\ (Len(run.sent) >= 2 /\ run.sent[2][1] = "AUTH") =>
                /\ run.sent[1] = <<"AUTH", "user", "pass">>
                /\ run.sent[2] = <<"AUTH", "pass">>
        /\ (Len(run.sent) = 2 /\ run.sent[2][1] = "AUTH") =>
                IF run.last = Okay
                THEN run.pc \notin {"first", "auth_retry", "done"} /\ run.ret = Running
                ELSE run.pc = "done" /\ run.ret = AuthFailed

C3_Step ==
    (C3_Configured /\ run.pc = "auth_retry") =>
        run'.sent = Append(run.sent, <<"AUTH", "pass">>)

(* C3: under RESP2 with a username and a password, a first AUTH answered   *)
(* by the wrong-number-of-arguments error is retried once, by AUTH with    *)
(* the password alone; authentication passes exactly when the retry is     *)
(* answered Okay; at most two AUTH commands are dispatched.                *)
C3_AuthFallback == []C3_State /\ [][C3_Step]_vars

C3_Witness ==
    /\ C3_Configured
    /\ run.sent = <<<<"AUTH", "user", "pass">>, <<"AUTH", "pass">>>>
    /\ run.last = Okay
    /\ run.pc = "select"

----------------------------------------------------------------------------
C4_BadFirstReply(r) ==
    \/ IsErr(r) /\ ~IsArityError(r)
    \/ ~IsErr(r) /\ r # Okay

C4_State ==
    ( /\ connection_info.protocol = "RESP2"
      /\ connection_info.password # None
      /\ Len(run.sent) = 1
      /\ C4_BadFirstReply(run.last) ) =>
        /\ run.pc = "done"
        /\ run.ret.t = "Err"
        /\ run.ret.kind = "AuthenticationFailed"
        /\ NumAuth(run) = 1

(* C4: under RESP2 with a password, a first AUTH answered by an error that *)
(* is not the wrong-number-of-arguments error (an error without detail     *)
(* included), or by a value other than Okay, ends setup with an            *)
(* authentication error after that one AUTH: nothing more is dispatched.   *)
C4_NoFallback == []C4_State /\ [][NoStepAfterReturn]_vars

C4_Witness ==
    /\ connection_info.protocol = "RESP2"
    /\ connection_info.username # None
    /\ run.sent = <<<<"AUTH", "user", "pass">>>>
    /\ run.last = ErrReply(None)
    /\ run.ret = AuthFailed

----------------------------------------------------------------------------
C5_Step ==
    run.pc = "setinfo" =>
        /\ run'.sent = Append(run.sent, <<"CLIENT", "SETINFO">>)
        /\ run'.pc = "resubscribe"
        /\ run'.ret = Running
        /\ run'.db = run.db
        /\ run'.az = run.az
        /\ run'.az_calls = run.az_calls
        /\ run'.k = run.k

C5_State ==
    (run.pc \in {"resubscribe", "subscribe"} \/ run.ret = RetOk) =>
        \E i \in 1..Len(run.sent) : IsBatch(run.sent[i])

(* C5: the reply to the client-metadata batch decides nothing: whatever    *)
(* the reply, the step dispatches the batch, leaves the run unreturned and *)
(* the handle as it was, and goes on to the subscription restoration; a    *)
(* run that is past the locality step has dispatched the batch.            *)
C5_MetadataIgnored == []C5_State /\ [][C5_Step]_vars

C5_Witness ==
    /\ run.ret = RetOk
    /\ IsBatch(LastSent(run))
    /\ IsErr(run.last)

----------------------------------------------------------------------------
(* C6: for a configured database index other than 0, a run that returned   *)
(* success leaves the handle bound to that index.                          *)
C6_BoundDatabase ==
    (connection_info.db # 0 /\ run.ret = RetOk) =>
        get_db(run) = connection_info.db

C6_Witness ==
    /\ run.ret = RetOk
    /\ connection_info.db = 2
    /\ get_db(run) = 2

----------------------------------------------------------------------------
SubscribeRank(name) ==
    CASE name = "SUBSCRIBE" -> 1
      [] name = "PSUBSCRIBE" -> 2
      [] name = "SSUBSCRIBE" -> 3

(* C7: the subscribe commands are dispatched in the kind order SUBSCRIBE,  *)
(* PSUBSCRIBE, SSUBSCRIBE, whatever the order the collection yields.       *)
C7_KindOrder ==
    \A i, j \in 1..Len(run.sent) :
        (i < j /\ IsSubscribe(run.sent[i]) /\ IsSubscribe(run.sent[j])) =>
            SubscribeRank(run.sent[i][1]) <= SubscribeRank(run.sent[j][1])

----------------------------------------------------------------------------
RestorationErrors ==
    {RestoreFailed(k) : k \in PubSubSubscriptionKind} \cup {NoNotification}

(* C8: a subscribe command whose confirmation is bad ends setup with a     *)
(* restoration error, so that no further subscribe command is dispatched;  *)
(* nothing is unsubscribed.                                                *)
C8_FailFast ==
    /\ (run.sent # <<>> /\ IsSubscribe(LastSent(run))
            /\ ~Confirms(LastSent(run), run.last)) =>
                (run.pc = "done" /\ run.ret \in RestorationErrors)
    /\ \A i \in 1..Len(run.sent) :
            run.sent[i][1] \notin {"UNSUBSCRIBE", "PUNSUBSCRIBE", "SUNSUBSCRIBE"}

----------------------------------------------------------------------------
(* C9: a subscribe command is accepted (setup goes on, or returns success) *)
(* exactly when its reply is a push of the acknowledgment kind of its      *)
(* subscription kind whose first payload element is the bulk string of the *)
(* channel or pattern subscribed.                                          *)
C9_Accepted ==
    (run.sent # <<>> /\ IsSubscribe(LastSent(run))) =>
        ( (run.ret \in {Running, RetOk}) <=> Confirms(LastSent(run), run.last) )

C9_Witness ==
    /\ run.ret = RetOk
    /\ Len(run.sent) >= 2
    /\ IsSubscribe(run.sent[Len(run.sent) - 1])
    /\ IsSubscribe(LastSent(run))
    /\ Confirms(LastSent(run), run.last)

----------------------------------------------------------------------------
(* C10: two runs on two handles, with equal connection parameters and      *)
(* discovery flag and the same replies, dispatch the same commands in the  *)
(* same order.                                                             *)
C10_SameCommands == run.sent = run2.sent

----------------------------------------------------------------------------
NumNamed(rn, name) ==
    Cardinality({i \in 1..Len(rn.sent) : rn.sent[i][1] = name})

(* C11: the first step is chosen by the protocol and the credentials:      *)
(* under a protocol other than RESP2 one HELLO is dispatched, first, and   *)
(* never an AUTH command, and a HELLO answered by an error ends setup with *)
(* the translated error after that one command; under RESP2 no HELLO is    *)
(* dispatched, and AUTH is dispatched exactly when a password is           *)
(* configured.                                                             *)
C11_FirstStep ==
    /\ connection_info.protocol # "RESP2" =>
        /\ NumNamed(run, "AUTH") = 0
        /\ NumNamed(run, "HELLO") = (IF run.pc = "first" THEN 0 ELSE 1)
        /\ run.sent # <<>> => run.sent[1] = resp3_hello(connection_info)
        /\ (Len(run.sent) = 1 /\ IsErr(run.last)) =>
                (run.pc = "done" /\ run.ret = get_resp3_hello_command_error(run.last))
        /\ run.ret = get_resp3_hello_command_error(run.last) => Len(run.sent) = 1
    /\ connection_info.protocol = "RESP2" =>
        /\ NumNamed(run, "HELLO") = 0
        /\ run.pc # "first" =>
                (NumNamed(run, "AUTH") >= 1 <=> connection_info.password # None)
        /\ NumNamed(run, "AUTH") >= 1 => run.sent[1][1] = "AUTH"

C11_Witness ==
    /\ connection_info.protocol = "RESP2"
    /\ connection_info.username # None
    /\ connection_info.password = None
    /\ run.ret = RetOk
    /\ NumNamed(run, "AUTH") = 0

----------------------------------------------------------------------------
NumSetName(rn) ==
    Cardinality({i \in 1..Len(rn.sent) : IsSetName(rn.sent[i])})

PastSelect(rn) ==
    \/ rn.pc \in {"setname", "discover_az", "setinfo", "resubscribe", "subscribe"}
    \/ rn.ret = RetOk

PastSetName(rn) ==
    \/ rn.pc \in {"discover_az", "setinfo", "resubscribe", "subscribe"}
    \/ rn.ret = RetOk

SelectRefused == RetErr("ResponseError", "Redis server refused to switch database")
SetNameRefused == RetErr("ResponseError", "Redis server refused to set client name")

(* C12: in a run that reached the database selection, SELECT is dispatched *)
(* exactly when the configured index is not 0, once, and CLIENT SETNAME    *)
(* exactly when a client name is configured; for either command every      *)
(* reply other than the positive acknowledgment, an error or another       *)
(* value, ends setup with a response error.                                *)
C12_SelectAndSetName ==
    /\ NumNamed(run, "SELECT") <= 1
    /\ NumNamed(run, "SELECT") = 1 => connection_info.db # 0
    /\ PastSelect(run) =>
            NumNamed(run, "SELECT") = (IF connection_info.db # 0 THEN 1 ELSE 0)
    /\ NumSetName(run) <= 1
    /\ NumSetName(run) = 1 => connection_info.client_name # None
    /\ PastSetName(run) =>
            NumSetName(run) = (IF connection_info.client_name # None THEN 1 ELSE 0)
    /\ (run.sent # <<>> /\ LastSent(run)[1] = "SELECT") =>
            IF run.last = Okay
            THEN run.pc \in {"setname", "discover_az", "setinfo"} /\ run.ret = Running
            ELSE run.pc = "done" /\ run.ret = SelectRefused
    /\ (run.sent # <<>> /\ IsSetName(LastSent(run))) =>
            IF run.last = Okay
            THEN run.pc \in {"discover_az", "setinfo"} /\ run.ret = Running
            ELSE run.pc = "done" /\ run.ret = SetNameRefused
    /\ run.ret = SelectRefused => LastSent(run)[1] = "SELECT"
    /\ run.ret = SetNameRefused => IsSetName(LastSent(run))

C12_Witness ==
    /\ connection_info.db # 0
    /\ NumNamed(run, "SELECT") = 1
    /\ IsSetName(LastSent(run))
    /\ ~IsErr(run.last)
    /\ run.last # Okay
    /\ run.ret = SetNameRefused

----------------------------------------------------------------------------
PastDiscoverAz(rn) ==
    \/ rn.pc \in {"setinfo", "resubscribe", "subscribe"}
    \/ rn.ret = RetOk

InfoFailed == RetErr("ResponseError", "Failed to execute INFO command. ")

\* the values of the availability_zone field of a dictionary reply
ZoneOf(r) == {l[2] : l \in {m \in r.lines : m[1] = "availability_zone"}}

(* C13: INFO is dispatched exactly when the discovery flag is set and the  *)
(* earlier steps succeeded.  An error reply to it ends setup with the      *)
(* error of the locality step; a dictionary without availability_zone is   *)
(* no error, set_az is not called and the zone of the handle stays absent; *)
(* a dictionary with the field calls set_az with exactly its value.        *)
C13_LocalityDiscovery ==
    /\ NumNamed(run, "INFO") <= 1
    /\ NumNamed(run, "INFO") = 1 => discover_az
    /\ PastDiscoverAz(run) =>
            NumNamed(run, "INFO") = (IF discover_az THEN 1 ELSE 0)
    /\ (run.sent # <<>> /\ LastSent(run) = <<"INFO">>) =>
        /\ IsErr(run.last) => (run.pc = "done" /\ run.ret = InfoFailed)
        /\ (run.last.t = "Info" /\ ZoneOf(run.last) = {}) =>
                /\ run.pc = "setinfo" /\ run.ret = Running
                /\ run.az_calls = <<>>
                /\ get_az(run) = None
        /\ (run.last.t = "Info" /\ ZoneOf(run.last) # {}) =>
                /\ run.pc = "setinfo" /\ run.ret = Running
                /\ run.az_calls = <<ZoneOf(run.last)>>
    /\ run.ret = InfoFailed => (LastSent(run) = <<"INFO">> /\ IsErr(run.last))

C13_Witness ==
    /\ discover_az
    /\ NumNamed(run, "INFO") = 1
    /\ run.ret = RetOk
    /\ run.az_calls = <<>>
    /\ get_az(run) = None

----------------------------------------------------------------------------
NumSubscribe(rn) ==
    Cardinality({i \in 1..Len(rn.sent) : IsSubscribe(rn.sent[i])})

\* the descriptors of the restoration set of the parameters
RestorationSet ==
    IF connection_info.pubsub_subscriptions = None
    THEN {}
    ELSE DescriptorsOf(Unwrap(connection_info.pubsub_subscriptions))

NothingToRestore ==
    \/ connection_info.protocol # "RESP3"
    \/ connection_info.pubsub_subscriptions = None

(* C14: subscribe commands are dispatched only under RESP3 with a          *)
(* restoration set present: under RESP2, or with no restoration set, no    *)
(* SUBSCRIBE, PSUBSCRIBE or SSUBSCRIBE is ever dispatched and setup        *)
(* returns success right after the client-metadata batch, also when        *)
(* subscriptions are configured under RESP2.                               *)
C14_RestoreOnlyUnderResp3 ==
    NothingToRestore =>
        /\ NumSubscribe(run) = 0
        /\ run.pc # "subscribe"
        /\ run.ret = RetOk => IsBatch(LastSent(run))
        /\ (run.pc = "done" /\ run.sent # <<>> /\ IsBatch(LastSent(run))) =>
                run.ret = RetOk

C14_Witness ==
    /\ connection_info.protocol = "RESP2"
    /\ connection_info.pubsub_subscriptions # None
    /\ RestorationSet # {}
    /\ run.ret = RetOk
    /\ NumSubscribe(run) = 0

----------------------------------------------------------------------------
KindOfCommand(name) ==
    CHOOSE k \in PubSubSubscriptionKind : KIND_TO_COMMAND[k] = name

\* what reply r to the subscribe command of (kind, chan) is
Cause(kind, chan, r) ==
    CASE IsErr(r) -> "error reply"
      [] r.t # "Push" -> "ordinary reply"
      [] r.kind # ExpectedPush[kind] -> "wrong kind"
      [] Len(r.data) = 0 -> "empty payload"
      [] r.data[1] # BulkString(chan) -> "mismatched channel"
      [] OTHER -> "confirmed"

\* the result of setup when the subscribe command of (kind, chan) gets r
ErrorWhileRestoring(kind, chan, r) ==
    DoSubscribe(NewRun, <<[kind |-> kind, chan |-> chan]>>, r).ret

\* the run failed restoring a subscription by one of causes, and restoring
\* any other kind the same cause gives another error
DistinctPerKind(causes) ==
    (run.sent # <<>> /\ IsSubscribe(LastSent(run))) =>
        LET kind == KindOfCommand(LastSent(run)[1])
            chan == LastSent(run)[2]
        IN Cause(kind, chan, run.last) \in causes =>
            /\ run.pc = "done"
            /\ run.ret \in RestorationErrors
            /\ \A k2 \in PubSubSubscriptionKind \ {kind}, r2 \in Replies :
                  Cause(k2, chan, r2) = Cause(kind, chan, run.last) =>
                        ErrorWhileRestoring(k2, chan, r2) # run.ret

----------------------------------------------------------------------------
SubscribeNameOf(kind) ==
    CASE kind = "Exact" -> "SUBSCRIBE"
      [] kind = "Pattern" -> "PSUBSCRIBE"
      [] kind = "Sharded" -> "SSUBSCRIBE"

\* the subscribe commands of the run that have descriptor d as subject
SubscribesOf(rn, d) ==
    {i \in 1..Len(rn.sent) : rn.sent[i] = <<SubscribeNameOf(d.kind), d.chan>>}

AtMostOncePerDescriptor ==
    /\ \A d \in Descriptors : Cardinality(SubscribesOf(run, d)) <= 1
    /\ \A i \in 1..Len(run.sent) :
          IsSubscribe(run.sent[i]) =>
              \E d \in RestorationSet : i \in SubscribesOf(run, d)

ExactlyOncePerDescriptor ==
    /\ NumSubscribe(run) = Cardinality(RestorationSet)
    /\ \A d \in RestorationSet : Cardinality(SubscribesOf(run, d)) = 1

(* C16 as stated: every (kind, identifier) pair of the restoration set is  *)
(* the subject of at most one subscribe command, and in a successful run   *)
(* of exactly one, the command of its kind with the identifier as its      *)
(* argument.                                                               *)
C16_OncePerDescriptor ==
    /\ AtMostOncePerDescriptor
    /\ run.ret = RetOk => ExactlyOncePerDescriptor

(* C16, amended: every (kind, identifier) pair of the restoration set is   *)
(* the subject of at most one subscribe command, the command of its kind   *)
(* with the identifier as its argument, and of exactly one in a successful *)
(* run under RESP3; a successful run under RESP2 dispatches none.          *)
C16_OncePerDescriptorUnderResp3 ==
    /\ AtMostOncePerDescriptor
    /\ (run.ret = RetOk /\ connection_info.protocol = "RESP3") =>
            ExactlyOncePerDescriptor
    /\ (run.ret = RetOk /\ connection_info.protocol # "RESP3") =>
            NumSubscribe(run) = 0

C16_Witness ==
    /\ connection_info.protocol = "RESP3"
    /\ Cardinality(RestorationSet) = MaxSubs
    /\ run.ret = RetOk
    /\ NumSubscribe(run) = MaxSubs

----------------------------------------------------------------------------
(* C17: whatever the reply to a subscribe command is, an error, an         *)
(* ordinary value or a push of any kind with any payload, the empty one    *)
(* included, setup ends by returning success or a restoration error and    *)
(* never abnormally.                                                       *)
C17_NoAbnormalEnd ==
    (run.sent # <<>> /\ IsSubscribe(LastSent(run))) =>
        /\ run.ret \in {Running, RetOk} \cup RestorationErrors
        /\ run.ret # Panicked

----------------------------------------------------------------------------
C18_State ==
    /\ Len(run.az_calls) <= 1
    /\ \A i \in 1..Len(run.az_calls) : run.az_calls[i] # None
    /\ run.az_calls = <<>> => get_az(run) = None
    /\ run.az_calls # <<>> =>
            /\ NumNamed(run, "INFO") = 1
            /\ get_az(run) \in {None, run.az_calls[1]}

C18_Step ==
    /\ run'.az_calls # run.az_calls => run.pc = "discover_az"
    /\ run.pc # "discover_az" => get_az(run') = get_az(run)
    /\ connection_info' = connection_info
    /\ discover_az' = discover_az

(* C18: in one run set_az is called at most once, only in the locality     *)
(* step and only with a present value; no later step, a failing one        *)
(* included, changes the zone written then, and no step changes the        *)
(* connection parameters.                                                  *)
C18_ZoneWrittenOnce == []C18_State /\ [][C18_Step]_vars

C18_Witness ==
    /\ run.ret \in RestorationErrors
    /\ run.az_calls = <<Some("us-east-1a")>>
    /\ get_az(run) = Some("us-east-1a")

----------------------------------------------------------------------------
Returned(rn) == rn.ret = RetOk \/ rn.ret.t = "Err"

\* 2 for the first step and its retry, 1 each for SELECT, CLIENT SETNAME,
\* INFO and the batch, and 1 for every descriptor of the restoration set
DispatchBound == 2 + 1 + 1 + 1 + 1 + Cardinality(RestorationSet)

(* C19: when every dispatched command gets a reply or an error, setup      *)
(* returns success or an error in the end, whatever the parameters, and    *)
(* the run dispatches at most 2 + 1 + 1 + 1 + 1 + the number of            *)
(* descriptors of the restoration set commands.                            *)
C19_ReturnsWithinBound ==
    /\ <>Returned(run)
    /\ [](Len(run.sent) <= DispatchBound)

====
